---- MODULE Spec2Model ----
(***************************************************************************)
(* WeaponRangeTemplate (src/module/pixi/weapon-range-template.ts): the     *)
(* area-template placement tool, as a state machine over the host canvas.  *)
(*                                                                         *)
(* Numbers.  A distance is (tenths / 10) * scale with scale 1 or sqrt(3)/2 *)
(* and is kept as the pair [tenths, hexScale]; 0 is the pair Zero.  Range  *)
(* values are whole numbers.  Pixel coordinates are whole numbers, a grid  *)
(* cell is GridSize pixels wide.  Time is in milliseconds.                 *)
(*                                                                         *)
(* LancerDeployableSheet (getData, _updateObject): the sheet controller of *)
(* a deployable actor, over the actor it edits.                            *)
(***************************************************************************)
EXTENDS Integers, Sequences, FiniteSets, TLC

\* ------------------------------------------------------------ bounds
MaxSessions == 2
MaxVal == 3
MaxSize == 4
MaxX == 4
MaxY == 2
MaxTicks == 3
MaxTurns == 1

\* ------------------------------------------------------------ host constants
\* Date.now(): the clock's value at the start and the step it advances by
ClockStart == 1000
TickMs == 10
\* canvas.grid: pixels per cell, and CONST.GRID_TYPES (0 gridless, 1 square, 2..5 hex)
GridSize == 2
GRIDLESS == 0
SQUARE == 1
MaxGridType == 5
GridTypes == GRIDLESS..MaxGridType
THROTTLE == 20
FINE == 5
COARSE_SQUARE == 15
COARSE_HEX == 30

RangeTypes == {"Cone", "Line", "Burst", "Blast", "Threat", ""}
NoLayer == "none"
TemplateLayer == "templates"
\* null is the empty sequence, a value v is <<v>>
Null == <<>>
Some(v) == <<v>>

\* ------------------------------------------------------------ numbers
Zero == [tenths |-> 0, hexScale |-> FALSE]

\* (tenths / 10) * scale, scale = sqrt(3)/2 when hex and 1 otherwise
Scaled(tenths, hex) == IF tenths = 0 THEN Zero ELSE [tenths |-> tenths, hexScale |-> hex]

\* Math.sign of a number whose sign is s
Sign(s) == IF s > 0 THEN 1 ELSE IF s < 0 THEN -1 ELSE 0

\* ------------------------------------------------------------ fromRange
\* the test with > for >=: grid type 2 counts as not hex
fromRangeHexAbove(g) == g > 2

\* line 43: let hex = canvas.grid.type >= 2
fromRangeHex(g) == g >= 2

\* the switch with a default shape: every type string yields a tool
shapeOfAny(type) ==
  CASE type = "Cone" -> "cone"
    [] type = "Line" -> "ray"
    [] OTHER -> "circle"

\* lines 46-59: the switch on the range type; "null" is the default branch
shapeOf(type) ==
  CASE type = "Cone" -> "cone"
    [] type = "Line" -> "ray"
    [] type = "Burst" -> "circle"
    [] type = "Blast" -> "circle"
    [] OTHER -> "null"

\* lines 41-76: the template fromRange builds, or Null
fromRange(ready, g, type, val) ==
  IF ~ready THEN Null
  ELSE IF shapeOf(type) = "null" THEN Null
  ELSE Some([t |-> shapeOf(type),
             distance |-> Scaled(val * 10 + 1, fromRangeHex(g)),
             direction |-> 0,
             x |-> 0,
             y |-> 0,
             isBurst |-> (type = "Burst"),
             range |-> [type |-> type, val |-> val]])

\* ------------------------------------------------------------ getBurstDistance
\* line 195: const hex = canvas.grid.type > 1
burstHex(g) == g > 1

\* the offsets without the correction of line 199
burstOffsetUncorrected(hex, size, val) ==
  IF hex
  THEN (IF size = 2 THEN 7 ELSE 0) + (IF size = 3 THEN 12 ELSE 0) + (IF size = 4 THEN 15 ELSE 0)
  ELSE (IF size = 2 THEN 9 ELSE 0) + (IF size = 3 THEN 14 ELSE 0) + (IF size = 4 THEN 19 ELSE 0)

\* lines 198-206: the offset added to range.val, in tenths
burstOffset(hex, size, val) ==
  IF hex
  THEN (IF size = 2 THEN 7 - (IF val > 2 THEN 1 ELSE 0) ELSE 0)
       + (IF size = 3 THEN 12 ELSE 0)
       + (IF size = 4 THEN 15 ELSE 0)
  ELSE (IF size = 2 THEN 9 ELSE 0)
       + (IF size = 3 THEN 14 ELSE 0)
       + (IF size = 4 THEN 19 ELSE 0)

\* lines 193-208, for a ready canvas
getBurstDistance(g, val, size) ==
  Scaled(val * 10 + burstOffset(burstHex(g), size, val) + 1, burstHex(g))

\* ------------------------------------------------------------ the scene's tokens
\* a token of `width` cells whose top-left corner is the pixel (x, y)
Token(id, x, y, width, visible) ==
  [id |-> id, x |-> x, y |-> y, width |-> width, visible |-> visible]
tokenW(t) == t.width * GridSize
tokenH(t) == t.width * GridSize
tokenCenter(t) == [x |-> t.x + (tokenW(t) \div 2), y |-> t.y + (tokenH(t) \div 2)]

\* canvas.tokens.placeables of the scenes explored
NoTokens == <<>>
HiddenOnly == <<Token(1, GridSize, 0, 1, FALSE)>>
Crowd == <<Token(1, 0, 0, 1, TRUE), Token(2, 0, 0, 2, TRUE), Token(3, GridSize, 0, 1, FALSE)>>
Twins == <<Token(1, 0, 0, 2, TRUE), Token(2, 1, 1, 1, TRUE), Token(3, 0, 0, 1, FALSE)>>
Scenes == {NoTokens, HiddenOnly, Crowd, Twins}
\* a scene whose later token is the closer one where the two overlap
Stack == <<Token(1, 0, 0, 2, TRUE), Token(2, 0, 0, 1, TRUE)>>

\* canvas.grid.getCenter: the center of the grid cell that holds the pixel
getCenter(x, y) ==
  [x |-> (x \div GridSize) * GridSize + (GridSize \div 2),
   y |-> (y \div GridSize) * GridSize + (GridSize \div 2)]

\* canvas.grid.measureDistance, up to a monotone map: the squared distance
measureDistance(p, q) == (p.x - q.x) * (p.x - q.x) + (p.y - q.y) * (p.y - q.y)

\* ------------------------------------------------------------ snapping
\* lines 151-155, for a ready canvas
snapToCenter(x, y) == getCenter(x, y)

\* the test with <= for <: a cursor on the edge of the box counts as inside
insideOrOnEdge(t, x, y) ==
  t.x <= x /\ t.x + tokenW(t) >= x /\ t.y <= y /\ t.y + tokenH(t) >= y

\* line 166: test if cursor is inside token
inside(t, x, y) == t.x < x /\ t.x + tokenW(t) > x /\ t.y < y /\ t.y + tokenH(t) > y

\* the reducer with <= for <: of two tokens equally close the later one is kept
closerOrEqual(r, t, x, y) ==
  IF ~t.visible THEN r
  ELSE IF r = Null
          \/ measureDistance([x |-> x, y |-> y], tokenCenter(t))
               <= measureDistance([x |-> x, y |-> y], tokenCenter(r[1]))
       THEN Some(t)
       ELSE r

\* lines 168-181: the reducer, r the token kept so far (Null at first)
closer(r, t, x, y) ==
  IF ~t.visible THEN r
  ELSE IF r = Null
          \/ measureDistance([x |-> x, y |-> y], tokenCenter(t))
               < measureDistance([x |-> x, y |-> y], tokenCenter(r[1]))
       THEN Some(t)
       ELSE r

RECURSIVE reduce(_, _, _, _)
reduce(r, ts, x, y) ==
  IF ts = <<>> THEN r ELSE reduce(closer(r, Head(ts), x, y), Tail(ts), x, y)

\* lines 163-181: the token the cursor snaps to, or Null
hovered(toks, x, y) ==
  reduce(Null, SelectSeq(toks, LAMBDA t : inside(t, x, y)), x, y)

\* lines 161-188, for a ready canvas: the position returned and the distance set
snapToToken(toks, g, val, x, y) ==
  LET token == hovered(toks, x, y) IN
  IF token # Null
  THEN [pos |-> tokenCenter(token[1]), distance |-> getBurstDistance(g, val, token[1].width)]
  ELSE [pos |-> snapToCenter(x, y), distance |-> Zero]

\* ------------------------------------------------------------ the deployable sheet
\* the names and images a form field or an actor may hold
Names == {"", "Drone", "Turret"}
Images == {"drone.png", "turret.png"}

\* the actor: its name and image, its sheet record (data.name), its prototype token
Actor(name, dataName, tokenName, img, tokenImg) ==
  [name |-> name, img |-> img, data |-> [name |-> dataName],
   token |-> [name |-> tokenName, img |-> tokenImg]]

\* the payload of a form submission: every form field, and the two token fields the
\* sheet adds, Null while they are not set
FormData(name, dataName, img) ==
  [name |-> name, img |-> img, data_name |-> dataName, token_name |-> Null, token_img |-> Null]

\* super.getData(): the render model of the actor, a copy of the actor's data
superGetData(a) == [actor |-> [name |-> a.name], data |-> [name |-> a.data.name]]

\* getData that takes the actor's name whatever the sheet record holds
getDataAlways(data) == [data EXCEPT !.data.name = data.actor.name]

\* lines 56-66: getData, on the render model super.getData() returned
getData(data) ==
  IF data.data.name = "" THEN [data EXCEPT !.data.name = data.actor.name] ELSE data

\* this._updateTokenImage(formData): the payload, its token image set from the form's
\* image when the token still shows the actor's image
updateTokenImage(a, formData) ==
  IF a.img = a.token.img /\ a.img # formData.img
  THEN [formData EXCEPT !.token_img = Some(formData.img)]
  ELSE formData

\* the actor with an update's payload merged in
merged(a, payload) ==
  [name |-> payload.name, img |-> payload.img, data |-> [name |-> payload.data_name],
   token |-> [name |-> IF payload.token_name = Null THEN a.token.name
                                                   ELSE payload.token_name[1],
              img |-> IF payload.token_img = Null THEN a.token.img ELSE payload.token_img[1]]]

\* this.object.update(payload): a promise that resolves with the updated actor when
\* the host accepts the update (ok), and rejects with the host's error when not
update(a, payload, ok) ==
  IF ok THEN [state |-> "resolved", value |-> merged(a, payload)]
        ELSE [state |-> "rejected", value |-> "error"]

\* _updateObject without line 74: the token name is not written
updateObjectNoCopy(a, formData, ok) ==
  LET payload == updateTokenImage(a, formData) IN
  [calls |-> <<[op |-> "update", s |-> 0, layer |-> "", data |-> <<payload>>]>>,
   ret |-> update(a, payload, ok)]

\* lines 72-80: _updateObject, the calls it makes on the actor and what it returns
updateObject(a, formData, ok) ==
  LET payload == updateTokenImage(a, [formData EXCEPT !.token_name = Some(formData.name)]) IN
  [calls |-> <<[op |-> "update", s |-> 0, layer |-> "", data |-> <<payload>>]>>,
   ret |-> update(a, payload, ok)]

\* ------------------------------------------------------------ state
VARIABLES
  canvasReady,   \* canvas?.ready
  gridType,      \* canvas.grid.type
  tokens,        \* canvas.tokens.placeables
  activeLayer,   \* canvas.activeLayer, NoLayer when there is none
  preview,       \* the children of the template layer's preview container
  stageMove,     \* canvas.stage's "mousemove" listeners, in order: sessions
  stageDown,     \* canvas.stage's "mousedown" listeners, in order: sessions
  viewContext,   \* canvas.app.view.oncontextmenu: Null or a session
  viewWheel,     \* canvas.app.view.onwheel: Null or a session
  created,       \* the createEmbeddedEntity calls made, in order
  now,           \* Date.now()
  templates,     \* the WeaponRangeTemplate objects built so far
  sessions,      \* one per activatePreviewListeners call: its closure
  actor,         \* the deployable sheet's actor (this.object)
  evt            \* the last call or event delivered, and the one before it

vars == <<canvasReady, gridType, tokens, activeLayer, preview, stageMove, stageDown,
          viewContext, viewWheel, created, now, templates, sessions, actor, evt>>

Templates == 1..Len(templates)
Sessions == 1..Len(sessions)

\* ------------------------------------------------------------ host calls
\* a call the tool makes on the host: s the session making it (0: none)
Call(op, s, layer, data) == [op |-> op, s |-> s, layer |-> layer, data |-> data]

Without(seq, s) == SelectSeq(seq, LAMBDA e : e # s)

\* the host's state as one record, and the effect of one call on it
Host ==
  [activeLayer |-> activeLayer, preview |-> preview, stageMove |-> stageMove,
   stageDown |-> stageDown, viewContext |-> viewContext, viewWheel |-> viewWheel,
   created |-> created, restored |-> [s \in Sessions |-> sessions[s].restored]]

Do(h, c) ==
  CASE c.op = "removeChildren" -> [h EXCEPT !.preview = {}]
    [] c.op = "addChild" -> [h EXCEPT !.preview = @ \cup {c.data[1]}]
    [] c.op = "off mousemove" -> [h EXCEPT !.stageMove = Without(@, c.s)]
    [] c.op = "off mousedown" -> [h EXCEPT !.stageDown = Without(@, c.s)]
    [] c.op = "on mousemove" -> [h EXCEPT !.stageMove = Append(@, c.s)]
    [] c.op = "on mousedown" -> [h EXCEPT !.stageDown = Append(@, c.s)]
    [] c.op = "oncontextmenu = rc" -> [h EXCEPT !.viewContext = Some(c.s)]
    [] c.op = "onwheel = mw" -> [h EXCEPT !.viewWheel = Some(c.s)]
    [] c.op = "oncontextmenu = null" -> [h EXCEPT !.viewContext = Null]
    [] c.op = "onwheel = null" -> [h EXCEPT !.viewWheel = Null]
    [] c.op = "layer.activate" -> [h EXCEPT !.activeLayer = c.layer]
    [] c.op = "initialLayer.activate" ->
         [h EXCEPT !.activeLayer = c.layer, !.restored = [@ EXCEPT ![c.s] = @ + 1]]
    [] c.op = "createEmbeddedEntity" ->
         [h EXCEPT !.created = Append(@, [s |-> c.s, data |-> c.data[1]])]

RECURSIVE Run(_, _)
Run(h, calls) == IF calls = <<>> THEN h ELSE Run(Do(h, Head(calls)), Tail(calls))

\* the record kept of the last call or event delivered: what it was, whether the
\* canvas was ready, its inputs, the sessions whose handler took effect, and the
\* host calls made, in order
Event(kind, arg, applied, calls) ==
  [kind |-> kind, ready |-> canvasReady, arg |-> arg, applied |-> applied, calls |-> calls]

\* ------------------------------------------------------------ the handlers
\* lines 110-118: handlers.rc of session s
rc(ready, s) ==
  IF ~ready THEN <<>>
  ELSE <<Call("removeChildren", s, "", <<>>),
         Call("off mousemove", s, "", <<>>),
         Call("off mousedown", s, "", <<>>),
         Call("oncontextmenu = null", s, "", <<>>),
         Call("onwheel = null", s, "", <<>>),
         Call("initialLayer.activate", s, sessions[s].initialLayer, <<>>)>>

\* handlers.lc with its two steps exchanged: the creation call made first
lcCreateFirst(ready, s) ==
  IF ~ready THEN <<>>
  ELSE <<Call("createEmbeddedEntity", s, "", <<templates[sessions[s].tmpl]>>)>>
       \o rc(ready, s)

\* handlers.lc that creates the template as fromRange built it, not as placed
lcCreateInitial(ready, s) ==
  IF ~ready THEN <<>>
  ELSE rc(ready, s)
       \o <<Call("createEmbeddedEntity", s, "",
                 <<[templates[sessions[s].tmpl] EXCEPT !.x = 0, !.y = 0, !.direction = 0]>>)>>

\* lines 121-127: handlers.lc of session s
lc(ready, s) ==
  IF ~ready THEN <<>>
  ELSE rc(ready, s)
       \o <<Call("createEmbeddedEntity", s, "", <<templates[sessions[s].tmpl]>>)>>

\* lines 140-145: the registration at the end of activatePreviewListeners
register(ready, s) ==
  IF ~ready THEN <<>>
  ELSE <<Call("on mousemove", s, "", <<>>),
         Call("on mousedown", s, "", <<>>),
         Call("oncontextmenu = rc", s, "", <<>>),
         Call("onwheel = mw", s, "", <<>>)>>

\* lines 134-135: the increment of one wheel event
wheelSnap(g, shiftKey) ==
  LET delta == IF g > SQUARE THEN COARSE_HEX ELSE COARSE_SQUARE IN
  IF shiftKey THEN delta ELSE FINE

\* the sum kept within a full turn
turnedWrapped(direction, g, shiftKey, deltaY) ==
  (direction + wheelSnap(g, shiftKey) * Sign(deltaY)) % 360

\* line 136: this.data.direction += snap * Math.sign(event.deltaY)
turned(direction, g, shiftKey, deltaY) == direction + wheelSnap(g, shiftKey) * Sign(deltaY)

\* the throttle with < for <=: an event exactly THROTTLE ms later passes
throttledStrict(time, moveTime) == time - moveTime < THROTTLE

\* line 98: the throttle's test, TRUE when the event is dropped
throttled(time, moveTime) == time - moveTime <= THROTTLE

\* the move that snaps every template to tokens, whatever its burst flag
movedToToken(tm, x, y) ==
  LET r == snapToToken(tokens, gridType, tm.range.val, x, y) IN
  [tm EXCEPT !.x = r.pos.x, !.y = r.pos.y, !.distance = r.distance]

\* the move whose fallback keeps the distance: line 186 left out
movedNoReset(tm, x, y) ==
  IF tm.isBurst
  THEN LET r == snapToToken(tokens, gridType, tm.range.val, x, y) IN
       [tm EXCEPT !.x = r.pos.x, !.y = r.pos.y,
                  !.distance = IF r.distance = Zero THEN @ ELSE r.distance]
  ELSE LET c == snapToCenter(x, y) IN [tm EXCEPT !.x = c.x, !.y = c.y]

\* lines 99-104: the template after a move to the pixel (x, y)
moved(tm, x, y) ==
  IF tm.isBurst
  THEN LET r == snapToToken(tokens, gridType, tm.range.val, x, y) IN
       [tm EXCEPT !.x = r.pos.x, !.y = r.pos.y, !.distance = r.distance]
  ELSE LET c == snapToCenter(x, y) IN [tm EXCEPT !.x = c.x, !.y = c.y]

\* handlers.mm measuring from the last event delivered: a dropped event is stamped too
mmStampDropped(m, s, x, y) ==
  IF m.threw THEN m
  ELSE IF throttled(now, m.sessions[s].moveTime) THEN [m EXCEPT !.sessions[s].moveTime = now]
  ELSE IF ~canvasReady THEN [m EXCEPT !.threw = TRUE]
  ELSE [m EXCEPT !.templates[m.sessions[s].tmpl] = moved(@, x, y),
                 !.sessions[s].moveTime = now,
                 !.applied = @ \cup {s}]

\* handlers.mm with line 106 moved up: the timestamp is taken before the snap
mmStampFirst(m, s, x, y) ==
  IF m.threw \/ throttled(now, m.sessions[s].moveTime) THEN m
  ELSE IF ~canvasReady THEN [m EXCEPT !.threw = TRUE, !.sessions[s].moveTime = now]
  ELSE [m EXCEPT !.templates[m.sessions[s].tmpl] = moved(@, x, y),
                 !.sessions[s].moveTime = now,
                 !.applied = @ \cup {s}]

\* lines 95-107: handlers.mm of session s on the state m = [templates, sessions,
\* applied, threw]; a handler that throws ends the dispatch
mm(m, s, x, y) ==
  IF m.threw \/ throttled(now, m.sessions[s].moveTime) THEN m
  ELSE IF ~canvasReady THEN [m EXCEPT !.threw = TRUE]
  ELSE [m EXCEPT !.templates[m.sessions[s].tmpl] = moved(@, x, y),
                 !.sessions[s].moveTime = now,
                 !.applied = @ \cup {s}]

RECURSIVE emitMove(_, _, _, _)
emitMove(m, listeners, x, y) ==
  IF listeners = <<>> THEN m
  ELSE emitMove(mm(m, Head(listeners), x, y), Tail(listeners), x, y)

\* the calls of every "mousedown" listener, in the order they were registered
RECURSIVE emitDown(_)
emitDown(listeners) ==
  IF listeners = <<>> THEN <<>>
  ELSE lc(canvasReady, Head(listeners)) \o emitDown(Tail(listeners))

\* ------------------------------------------------------------ actions
\* the host's state after `calls`, written back to the variables
Commit(calls) ==
  LET h == Run(Host, calls) IN
  /\ activeLayer' = h.activeLayer
  /\ preview' = h.preview
  /\ stageMove' = h.stageMove
  /\ stageDown' = h.stageDown
  /\ viewContext' = h.viewContext
  /\ viewWheel' = h.viewWheel
  /\ created' = h.created
  /\ sessions' = [s \in Sessions |-> [sessions[s] EXCEPT !.restored = h.restored[s]]]

hostVars == <<activeLayer, preview, stageMove, stageDown, viewContext, viewWheel, created>>
envVars == <<canvasReady, gridType, tokens, now, actor>>

\* WeaponRangeTemplate.fromRange({type, val})
FromRange(type, val, limit) ==
  /\ Len(templates) < limit
  /\ LET r == fromRange(canvasReady, gridType, type, val) IN
     /\ templates' = IF r = Null THEN templates ELSE Append(templates, r[1])
     /\ evt' = Event("fromRange", [type |-> type, val |-> val, ret |-> r], {}, <<>>)
  /\ UNCHANGED <<envVars, hostVars, sessions>>

\* drawPreview without the test of line 83: the layer is activated and the preview
\* child added whatever the canvas, and only the registration tests canvas.ready
DrawPreviewUnguarded(t, limit) ==
  /\ Len(sessions) < limit
  /\ t \in Templates
  /\ LET s == Len(sessions) + 1
         calls == <<Call("layer.activate", s, TemplateLayer, <<>>),
                    Call("addChild", s, "", <<t>>)>>
                  \o register(canvasReady, s)
         h == Run(Host, calls)
     IN /\ activeLayer' = h.activeLayer
        /\ preview' = h.preview
        /\ stageMove' = h.stageMove
        /\ stageDown' = h.stageDown
        /\ viewContext' = h.viewContext
        /\ viewWheel' = h.viewWheel
        /\ created' = h.created
        /\ sessions' = Append(sessions, [tmpl |-> t, initialLayer |-> activeLayer,
                                          moveTime |-> 0, restored |-> 0])
        /\ evt' = Event("drawPreview", [t |-> t], {s}, calls)
  /\ UNCHANGED <<envVars, templates>>

\* lines 82-89: template.drawPreview(), the session it starts being the next one
DrawPreview(t, limit) ==
  /\ Len(sessions) < limit
  /\ t \in Templates
  /\ IF ~canvasReady \/ activeLayer = NoLayer
     THEN /\ evt' = Event("drawPreview", [t |-> t], {}, <<>>)
          /\ UNCHANGED <<hostVars, sessions>>
     ELSE LET s == Len(sessions) + 1
              calls == <<Call("layer.activate", s, TemplateLayer, <<>>),
                         Call("addChild", s, "", <<t>>)>>
                       \o register(canvasReady, s)
              h == Run(Host, calls)
          IN /\ activeLayer' = h.activeLayer
             /\ preview' = h.preview
             /\ stageMove' = h.stageMove
             /\ stageDown' = h.stageDown
             /\ viewContext' = h.viewContext
             /\ viewWheel' = h.viewWheel
             /\ created' = h.created
             /\ sessions' = Append(sessions, [tmpl |-> t, initialLayer |-> activeLayer,
                                               moveTime |-> 0, restored |-> 0])
             /\ evt' = Event("drawPreview", [t |-> t], {s}, calls)
  /\ UNCHANGED <<envVars, templates>>

\* a right click: the view's contextmenu handler runs
ContextMenu ==
  /\ viewContext # Null
  /\ LET s == viewContext[1]
         calls == rc(canvasReady, s)
     IN /\ Commit(calls)
        /\ evt' = Event("contextmenu", [s |-> s], IF calls = <<>> THEN {} ELSE {s}, calls)
  /\ UNCHANGED <<envVars, templates>>

\* a left click: the stage emits "mousedown" to the listeners it had at that moment
MouseDown ==
  /\ stageDown # <<>>
  /\ LET calls == emitDown(stageDown) IN
     /\ Commit(calls)
     /\ evt' = Event("mousedown", [n |-> Len(stageDown)],
                     IF calls = <<>> THEN {} ELSE {stageDown[i] : i \in DOMAIN stageDown},
                     calls)
  /\ UNCHANGED <<envVars, templates>>

\* a wheel handler under the move handler's throttle: it drops an event that comes
\* within THROTTLE ms of the last applied one, and stamps the ones it applies
WheelThrottled(deltaY, shiftKey, limit) ==
  /\ viewWheel # Null
  /\ LET s == viewWheel[1]
         t == sessions[s].tmpl
         d == turned(templates[t].direction, gridType, shiftKey, deltaY)
         applies == canvasReady /\ ~throttled(now, sessions[s].moveTime)
     IN /\ d <= limit
        /\ -d <= limit
        /\ templates' = IF applies THEN [templates EXCEPT ![t].direction = d] ELSE templates
        /\ sessions' = IF applies THEN [sessions EXCEPT ![s].moveTime = now] ELSE sessions
        /\ evt' = Event("wheel", [s |-> s, deltaY |-> deltaY, shiftKey |-> shiftKey,
                                  from |-> templates[t].direction],
                        IF applies THEN {s} ELSE {}, <<>>)
  /\ UNCHANGED <<envVars, hostVars>>

\* lines 130-138: a wheel event, the view's wheel handler runs
Wheel(deltaY, shiftKey, limit) ==
  /\ viewWheel # Null
  /\ LET s == viewWheel[1]
         t == sessions[s].tmpl
         d == turned(templates[t].direction, gridType, shiftKey, deltaY)
     IN /\ d <= limit
        /\ -d <= limit
        /\ templates' = IF canvasReady THEN [templates EXCEPT ![t].direction = d]
                                       ELSE templates
        /\ evt' = Event("wheel", [s |-> s, deltaY |-> deltaY, shiftKey |-> shiftKey,
                                  from |-> templates[t].direction],
                        IF canvasReady THEN {s} ELSE {}, <<>>)
  /\ UNCHANGED <<envVars, hostVars, sessions>>

\* a pointer move to the pixel (x, y): the stage emits "mousemove"
MouseMove(x, y) ==
  /\ stageMove # <<>>
  /\ LET m == emitMove([templates |-> templates, sessions |-> sessions,
                        applied |-> {}, threw |-> FALSE], stageMove, x, y)
     IN /\ templates' = m.templates
        /\ sessions' = m.sessions
        /\ evt' = Event("mousemove",
                        [x |-> x, y |-> y, time |-> now, threw |-> m.threw,
                         prev |-> IF evt.kind = "mousemove"
                                  THEN Some([time |-> evt.arg.time, applied |-> evt.applied])
                                  ELSE Null],
                        m.applied, <<>>)
  /\ UNCHANGED <<envVars, hostVars>>

\* lines 193-208 called on a template of range value val; it throws (Null) when
\* the canvas is not ready
GetBurstDistance(val, size) ==
  /\ evt' = Event("getBurstDistance",
                  [val |-> val, size |-> size,
                   ret |-> IF canvasReady THEN Some(getBurstDistance(gridType, val, size))
                                          ELSE Null],
                  {}, <<>>)
  /\ UNCHANGED <<envVars, hostVars, templates, sessions>>

\* lines 151-155: template.snapToCenter({x, y}) called on template t; it throws (Null)
\* when the canvas is not ready
SnapToCenter(t, x, y) ==
  /\ t \in Templates
  /\ evt' = Event("snapToCenter",
                  [t |-> t, x |-> x, y |-> y,
                   ret |-> IF canvasReady THEN Some(snapToCenter(x, y)) ELSE Null],
                  {}, <<>>)
  /\ UNCHANGED <<envVars, hostVars, templates, sessions>>

\* lines 161-188: template.snapToToken({x, y}) called on template t; it throws (Null)
\* at line 162 when the canvas is not ready, and sets the distance when it returns
SnapToToken(t, x, y) ==
  /\ t \in Templates
  /\ LET r == snapToToken(tokens, gridType, templates[t].range.val, x, y) IN
     /\ templates' = IF canvasReady THEN [templates EXCEPT ![t].distance = r.distance]
                                    ELSE templates
     /\ evt' = Event("snapToToken",
                     [t |-> t, x |-> x, y |-> y,
                      ret |-> IF canvasReady THEN Some(r.pos) ELSE Null],
                     {}, <<>>)
  /\ UNCHANGED <<envVars, hostVars, sessions>>

\* lines 56-66: sheet.getData()
GetData ==
  /\ evt' = Event("getData", [super |-> superGetData(actor),
                              ret |-> getData(superGetData(actor))], {}, <<>>)
  /\ UNCHANGED <<envVars, hostVars, templates, sessions>>

\* lines 72-80: sheet._updateObject(event, formData); the update call resolves (ok)
\* with the updated actor or rejects, and _updateObject returns that promise
UpdateObject(formData, ok) ==
  /\ LET r == updateObject(actor, formData, ok) IN
     /\ actor' = IF ok THEN merged(actor, r.calls[1].data[1]) ELSE actor
     /\ evt' = Event("_updateObject",
                     [formData |-> formData, ok |-> ok, before |-> actor, ret |-> r.ret],
                     {}, r.calls)
  /\ UNCHANGED <<canvasReady, gridType, tokens, now, hostVars, templates, sessions>>

\* time passes: the clock advances by `step` ms, `limit` ms at most in all
Tick(step, limit) ==
  /\ now + step <= ClockStart + limit
  /\ now' = now + step
  /\ UNCHANGED <<canvasReady, gridType, tokens, actor, hostVars, templates, sessions, evt>>

\* the host tears the canvas down, or finishes drawing it
CanvasReady ==
  /\ canvasReady' = ~canvasReady
  /\ UNCHANGED <<gridType, tokens, now, actor, hostVars, templates, sessions, evt>>

\* ------------------------------------------------------------ specification
InitCanvas(grids, scenes, layers) ==
  /\ canvasReady = TRUE
  /\ gridType \in grids
  /\ tokens \in scenes
  /\ activeLayer \in layers
  /\ preview = {}
  /\ stageMove = <<>>
  /\ stageDown = <<>>
  /\ viewContext = Null
  /\ viewWheel = Null
  /\ created = <<>>
  /\ now = ClockStart
  /\ templates = <<>>
  /\ sessions = <<>>
  /\ evt = [kind |-> "init", ready |-> TRUE, arg |-> <<>>, applied |-> {}, calls |-> <<>>]

\* the canvas, with an actor whose sheet is not used
InitWith(grids, scenes, layers) ==
  /\ InitCanvas(grids, scenes, layers)
  /\ actor = Actor("Drone", "", "Drone", "drone.png", "drone.png")

\* the pixels a pointer event may carry: inside, on the edge of and outside the tokens
Pixels == {<<x, y>> : x \in 0..MaxX, y \in 0..MaxY}
FewPixels == {<<1, 1>>, <<GridSize + 1, 1>>}

\* Spec: the placement workflow, construction to confirmation or cancellation, of one
\* template whose drawPreview may be called again while it previews
Init == InitWith({SQUARE}, {Crowd}, {"tokens"})

Next ==
  \/ \E type \in {"Line", "Burst"} : FromRange(type, MaxVal, 1)
  \/ \E t \in Templates : DrawPreview(t, MaxSessions)
  \/ ContextMenu
  \/ MouseDown
  \/ Wheel(1, TRUE, COARSE_HEX)
  \/ \E p \in FewPixels : MouseMove(p[1], p[2])
  \/ Tick(THROTTLE + TickMs, THROTTLE + TickMs)
  \/ CanvasReady

Spec == Init /\ [][Next]_vars

\* SpecMove: one session, the pointer moving over every pixel of each scene
InitMove == InitWith({SQUARE, SQUARE + 1}, Scenes, {"tokens"})

NextMove ==
  \/ \E type \in {"Blast", "Burst"} : FromRange(type, MaxVal, 1)
  \/ \E t \in Templates : DrawPreview(t, 1)
  \/ \E p \in Pixels : MouseMove(p[1], p[2])
  \/ Tick(THROTTLE + TickMs, THROTTLE + TickMs)
  \/ CanvasReady

SpecMove == InitMove /\ [][NextMove]_vars

\* SpecThrottle: one session, move events at every spacing the clock's step allows
InitThrottle == InitWith({SQUARE}, {NoTokens}, {"tokens"})

NextThrottle ==
  \/ FromRange("Cone", MaxVal, 1)
  \/ \E t \in Templates : DrawPreview(t, 1)
  \/ \E p \in FewPixels : MouseMove(p[1], p[2])
  \/ Tick(TickMs, MaxTicks * TickMs)
  \/ CanvasReady

SpecThrottle == InitThrottle /\ [][NextThrottle]_vars

\* SpecRange: construction from every range descriptor on every grid, and placement
InitRange == InitWith(GridTypes, {NoTokens}, {"tokens", NoLayer})

NextRange ==
  \/ \E type \in RangeTypes, val \in 0..MaxVal : FromRange(type, val, 2)
  \/ \E t \in Templates : DrawPreview(t, 1)
  \/ MouseDown
  \/ CanvasReady

SpecRange == InitRange /\ [][NextRange]_vars

\* SpecBurst: getBurstDistance on every grid, for each range value and token size
NextBurst ==
  \/ \E val \in 0..MaxVal, size \in 1..MaxSize : GetBurstDistance(val, size)
  \/ CanvasReady

SpecBurst == InitRange /\ [][NextBurst]_vars

\* SpecWheel: one session turned by wheel events, past a full turn either way
InitWheel == InitWith({GRIDLESS, SQUARE, SQUARE + 1}, {NoTokens}, {"tokens"})

NextWheel ==
  \/ FromRange("Cone", MaxVal, 1)
  \/ \E t \in Templates : DrawPreview(t, 1)
  \/ \E deltaY \in {-1, 0, 1}, shiftKey \in BOOLEAN :
        Wheel(deltaY, shiftKey, (12 + MaxTurns) * COARSE_HEX)
  \/ CanvasReady

SpecWheel == InitWheel /\ [][NextWheel]_vars

\* SpecSnap: the snapping helpers called directly and through move events, with the
\* canvas ready and not
InitSnap == InitWith({SQUARE, SQUARE + 1}, {Crowd}, {"tokens"})

NextSnap ==
  \/ \E type \in {"Blast", "Burst"} : FromRange(type, MaxVal, 1)
  \/ \E t \in Templates : DrawPreview(t, MaxSessions)
  \/ \E t \in Templates, p \in FewPixels : SnapToCenter(t, p[1], p[2])
  \/ \E t \in Templates, p \in FewPixels : SnapToToken(t, p[1], p[2])
  \/ \E size \in 1..MaxSize : GetBurstDistance(MaxVal, size)
  \/ \E p \in FewPixels : MouseMove(p[1], p[2])
  \/ Tick(THROTTLE + TickMs, THROTTLE + TickMs)
  \/ CanvasReady

SpecSnap == InitSnap /\ [][NextSnap]_vars

\* SpecSheet: the deployable sheet rendered and submitted, over every actor
InitSheet ==
  /\ InitCanvas({SQUARE}, {NoTokens}, {"tokens"})
  /\ \E name \in Names \ {""}, dataName, tokenName \in Names :
       actor = Actor(name, dataName, tokenName, "drone.png", "drone.png")

NextSheet ==
  \/ GetData
  \/ \E name, dataName \in Names, img \in Images, ok \in BOOLEAN :
       UpdateObject(FormData(name, dataName, img), ok)

SpecSheet == InitSheet /\ [][NextSheet]_vars

\* SpecMode: one session of a template of each supported type, the pointer moving
\* over every pixel of the scenes that have visible tokens
InitMode == InitWith({SQUARE}, {Crowd, Twins}, {"tokens"})

NextMode ==
  \/ \E type \in {"Cone", "Line", "Burst", "Blast"} : FromRange(type, MaxVal, 1)
  \/ \E t \in Templates : DrawPreview(t, 1)
  \/ \E p \in Pixels : MouseMove(p[1], p[2])
  \/ Tick(THROTTLE + TickMs, THROTTLE + TickMs)
  \/ CanvasReady

SpecMode == InitMode /\ [][NextMode]_vars

\* SpecPlace: one session of a template of each supported type on a hex grid, moved
\* over every pixel, turned, and confirmed or cancelled
InitPlace == InitWith({SQUARE + 1}, {Crowd}, {"tokens"})

NextPlace ==
  \/ \E type \in {"Cone", "Line", "Burst", "Blast"} : FromRange(type, MaxVal, 1)
  \/ \E t \in Templates : DrawPreview(t, 1)
  \/ \E p \in Pixels : MouseMove(p[1], p[2])
  \/ Wheel(1, TRUE, COARSE_HEX)
  \/ MouseDown
  \/ ContextMenu
  \/ Tick(THROTTLE + TickMs, THROTTLE + TickMs)
  \/ CanvasReady

SpecPlace == InitPlace /\ [][NextPlace]_vars

\* SpecSelect: one session of a Burst template, the pointer moving over every pixel of
\* the scenes where tokens overlap
InitSelect == InitWith({SQUARE, SQUARE + 1}, {Crowd, Twins, Stack}, {"tokens"})

NextSelect ==
  \/ FromRange("Burst", MaxVal, 1)
  \/ \E t \in Templates : DrawPreview(t, 1)
  \/ \E p \in Pixels : MouseMove(p[1], p[2])
  \/ Tick(THROTTLE + TickMs, THROTTLE + TickMs)
  \/ CanvasReady

SpecSelect == InitSelect /\ [][NextSelect]_vars

\* SpecFrame: one session moved and turned, events following each other at every
\* spacing the clock's step allows
InitFrame == InitWith({SQUARE}, {Crowd}, {"tokens"})

NextFrame ==
  \/ \E type \in {"Line", "Burst"} : FromRange(type, MaxVal, 1)
  \/ \E t \in Templates : DrawPreview(t, 1)
  \/ \E p \in FewPixels : MouseMove(p[1], p[2])
  \/ \E deltaY \in {-1, 1}, shiftKey \in BOOLEAN : Wheel(deltaY, shiftKey, COARSE_SQUARE)
  \/ Tick(TickMs, MaxTicks * TickMs)
  \/ CanvasReady

SpecFrame == InitFrame /\ [][NextFrame]_vars

\* ------------------------------------------------------------ claims
InSeq(seq, s) == \E i \in DOMAIN seq : seq[i] = s

\* the handlers of session s that are registered
Handlers(s) ==
  (IF InSeq(stageMove, s) THEN {"mm"} ELSE {})
  \cup (IF InSeq(stageDown, s) THEN {"lc"} ELSE {})
  \cup (IF viewContext = Some(s) THEN {"rc"} ELSE {})
  \cup (IF viewWheel = Some(s) THEN {"mw"} ELSE {})

\* a session previews from its drawPreview until its teardown has run
Previewing(s) == s \in Sessions /\ sessions[s].restored = 0

\* the creation calls made for session s
CreatedFor(s) == {i \in DOMAIN created : created[i].s = s}

\* the places in the last event's calls where session s made the call op
CallsOf(s, op) == {i \in DOMAIN evt.calls : evt.calls[i].s = s /\ evt.calls[i].op = op}

TeardownOps ==
  {"removeChildren", "off mousemove", "off mousedown", "oncontextmenu = null",
   "onwheel = null", "initialLayer.activate"}

IsClick == evt.kind \in {"contextmenu", "mousedown"}

\* C1 (as claimed, the canvas ready): once a right or a left click has been handled,
\* every session that was previewing has all four handlers removed, its teardown has
\* run exactly once, and the layer active before its drawPreview is the active layer.
C1_ClickTearsDownEverySession ==
  (IsClick /\ evt.ready) =>
    \A s \in Sessions :
      /\ Handlers(s) = {}
      /\ sessions[s].restored = 1
      /\ activeLayer = sessions[s].initialLayer

\* C2 (as claimed): the mousemove and mousedown handlers of two sessions never
\* coexist, and one left click makes at most one creation call.
C2_OneSessionAtATime ==
  /\ \A s1, s2 \in Sessions :
       s1 # s2 => /\ ~(InSeq(stageMove, s1) /\ InSeq(stageMove, s2))
                  /\ ~(InSeq(stageDown, s1) /\ InSeq(stageDown, s2))
  /\ evt.kind = "mousedown" =>
       Cardinality({i \in DOMAIN evt.calls : evt.calls[i].op = "createEmbeddedEntity"}) <= 1

\* C3 (as claimed): on a left click with the canvas ready, a session's creation call
\* is made before each of its teardown calls.
C3_CreateBeforeTeardown ==
  (evt.kind = "mousedown" /\ evt.ready) =>
    \A s \in evt.applied :
      \A i \in CallsOf(s, "createEmbeddedEntity") :
        \A op \in TeardownOps : \A j \in CallsOf(s, op) : i < j

\* C3 (amended): on a left click with the canvas ready, each session whose handler runs
\* first makes every teardown call (the preview is cleared, the four handlers are
\* removed, the layer active before drawPreview is activated last) and only then
\* makes its one creation call.
C3_TeardownBeforeCreate ==
  (evt.kind = "mousedown" /\ evt.ready) =>
    \A s \in evt.applied :
      /\ Cardinality(CallsOf(s, "createEmbeddedEntity")) = 1
      /\ \A op \in TeardownOps : Cardinality(CallsOf(s, op)) = 1
      /\ \A i \in CallsOf(s, "createEmbeddedEntity") :
           \A op \in TeardownOps : \A j \in CallsOf(s, op) :
             /\ j < i
             /\ \A k \in CallsOf(s, "initialLayer.activate") : j <= k

\* C3's case: a left click was handled with the canvas ready and its creation call is
\* in the scene
C3_Witness ==
  /\ evt.kind = "mousedown" /\ evt.ready
  /\ evt.applied # {}
  /\ created # <<>>
  /\ \E s \in evt.applied : Handlers(s) = {}

\* C4: a session's creation call is made at most once and never while it previews;
\* a left click handled with the canvas ready makes exactly one for each session whose
\* handler runs, carrying the template as it is at that click; no other step makes one.
C4_CreatedOnceOnLeftClick ==
  [][/\ \A s \in Sessions : Cardinality(CreatedFor(s)) <= 1
     /\ \A s \in Sessions : Previewing(s) => CreatedFor(s) = {}
     /\ IF MouseDown /\ canvasReady
        THEN /\ Len(created') = Len(created) + Len(stageDown)
             /\ \A i \in DOMAIN stageDown :
                  created'[Len(created) + i]
                    = [s |-> stageDown[i], data |-> templates[sessions[stageDown[i]].tmpl]]
        ELSE created' = created]_vars

\* C4's case: a session moved and turned, then confirmed, and its creation carries the
\* moved position and the turned direction; another session cancelled created nothing
C4_Witness ==
  /\ \E i \in DOMAIN created :
       /\ created[i].data.x = GridSize + 1
       /\ created[i].data.direction = COARSE_SQUARE
       /\ created[i].data.distance # Zero
  /\ \E s \in Sessions : sessions[s].restored = 1 /\ CreatedFor(s) = {}

\* the last two events delivered were move events, `MoveGap` ms apart
TwoMoves == evt.kind = "mousemove" /\ evt.arg.prev # Null
MoveGap == evt.arg.time - evt.arg.prev[1].time
FirstApplied(s) == s \in evt.arg.prev[1].applied
SecondApplied(s) == s \in evt.applied

\* C5 (as claimed, the canvas ready and the first event applied): of two move events
\* less than 20 ms apart only one applies, and of two 20 ms or more apart, exactly
\* 20 ms included, both apply.
C5_ThrottleFrom20 ==
  (TwoMoves /\ evt.ready) =>
    \A s \in Sessions :
      /\ MoveGap < 20 => ~(FirstApplied(s) /\ SecondApplied(s))
      /\ (MoveGap >= 20 /\ FirstApplied(s)) => SecondApplied(s)

\* C5 (amended): of two consecutive move events 20 ms or less apart, exactly 20 ms
\* included, at most one applies a snap/refresh; a move event delivered with the
\* canvas ready more than 20 ms after an applied one applies too.
C5_ThrottleAbove20 ==
  TwoMoves =>
    \A s \in Sessions :
      /\ MoveGap <= 20 => ~(FirstApplied(s) /\ SecondApplied(s))
      /\ (MoveGap > 20 /\ FirstApplied(s) /\ evt.ready) => SecondApplied(s)

\* C5's case: a move event applied, and the next one, exactly 20 ms later with the
\* canvas ready, was dropped
C5_Witness ==
  /\ TwoMoves /\ evt.ready
  /\ MoveGap = 20
  /\ \E s \in Sessions : FirstApplied(s) /\ ~SecondApplied(s)

\* no visible token's bounding box has the pixel (x, y) strictly inside it
NoVisibleTokenAt(x, y) ==
  \A i \in DOMAIN tokens :
    ~(/\ tokens[i].visible
      /\ tokens[i].x < x /\ x < tokens[i].x + tokens[i].width * GridSize
      /\ tokens[i].y < y /\ y < tokens[i].y + tokens[i].width * GridSize)

\* the center of the grid cell of the pixel coordinate c
CellCenter(c) == c - (c % GridSize) + (GridSize \div 2)

\* the template session s places
TemplateOf(s) == templates[sessions[s].tmpl]

\* C7: when a move of a Burst template is applied (snapToToken returns) and no visible
\* token's bounding box contains the pointer, the template is placed at the center of
\* the pointer's grid cell and its distance is 0.
C7_BurstFallback ==
  evt.kind = "mousemove" =>
    \A s \in evt.applied :
      (TemplateOf(s).isBurst /\ NoVisibleTokenAt(evt.arg.x, evt.arg.y)) =>
        /\ TemplateOf(s).x = CellCenter(evt.arg.x)
        /\ TemplateOf(s).y = CellCenter(evt.arg.y)
        /\ TemplateOf(s).distance = Zero

\* C7's case: a Burst template moved to a pixel strictly inside a hidden token's box
\* fell back to the center of the pixel's cell, with distance 0
C7_Witness ==
  /\ evt.kind = "mousemove"
  /\ \E s \in evt.applied :
       /\ TemplateOf(s).isBurst
       /\ TemplateOf(s).distance = Zero
       /\ TemplateOf(s).x = CellCenter(evt.arg.x)
       /\ TemplateOf(s).y = CellCenter(evt.arg.y)
       /\ \E i \in DOMAIN tokens :
            /\ ~tokens[i].visible
            /\ tokens[i].x < evt.arg.x /\ evt.arg.x < tokens[i].x + tokens[i].width * GridSize
            /\ tokens[i].y < evt.arg.y /\ evt.arg.y < tokens[i].y + tokens[i].width * GridSize

\* the shape kind of each supported range type
ShapeTable == {<<"Cone", "cone">>, <<"Line", "ray">>, <<"Burst", "circle">>, <<"Blast", "circle">>}
Supported == {"Cone", "Line", "Burst", "Blast"}
HasTableShape(tm) == <<tm.range.type, tm.t>> \in ShapeTable

\* C6: with the canvas ready fromRange returns, for Cone, Line, Burst and Blast, a
\* template of shape cone, ray, circle and circle; for every other type string it
\* returns null; and every template built, previewed or created in the scene has a
\* supported type and the shape of the table.
C6_ShapeOfRange ==
  /\ evt.kind = "fromRange" =>
       /\ (evt.arg.type \in Supported /\ evt.ready) =>
            evt.arg.ret # Null /\ HasTableShape(evt.arg.ret[1])
                               /\ evt.arg.ret[1].range.type = evt.arg.type
       /\ evt.arg.type \notin Supported => evt.arg.ret = Null
  /\ \A t \in Templates : HasTableShape(templates[t])
  /\ \A t \in preview : t \in Templates
  /\ \A i \in DOMAIN created : HasTableShape(created[i].data)

\* C6's case: with a Line template placed as a ray, fromRange is called with the
\* canvas ready and an unsupported type, and returns null
C6_Witness ==
  /\ evt.kind = "fromRange" /\ evt.ready
  /\ evt.arg.type = "Threat" /\ evt.arg.ret = Null
  /\ \E i \in DOMAIN created : created[i].data.range.type = "Line" /\ created[i].data.t = "ray"

\* the grid types the claims call hex: all but gridless and square
IsHexGrid == gridType \notin {GRIDLESS, SQUARE}

\* the offset of the table, in tenths, for token sizes 1 to 4
SquareOffset(size) == CASE size = 2 -> 9 [] size = 3 -> 14 [] size = 4 -> 19 [] OTHER -> 0
HexOffset(size) == CASE size = 2 -> 7 [] size = 3 -> 12 [] size = 4 -> 15 [] OTHER -> 0

\* what the last getBurstDistance call returned, if it returned
BurstReturned == evt.kind = "getBurstDistance" /\ evt.arg.ret # Null
BurstExpected(offset) ==
  [tenths |-> evt.arg.val * 10 + offset + 1, hexScale |-> IsHexGrid]

\* C8 (as claimed): getBurstDistance(size) returns (val + offset + 0.1) * scale, the
\* offset of the table, the hex offset reduced by 0.1 for the sizes from 2 upward
\* when val > 2.
C8_CorrectionFromSize2 ==
  BurstReturned =>
    evt.arg.ret[1] =
      BurstExpected(IF IsHexGrid
                    THEN HexOffset(evt.arg.size)
                         - (IF evt.arg.size >= 2 /\ evt.arg.val > 2 THEN 1 ELSE 0)
                    ELSE SquareOffset(evt.arg.size))

\* C8 (amended): getBurstDistance(size) returns (val + offset + 0.1) * scale, scale 1
\* on gridless and square grids and sqrt(3)/2 on hex grids, offset 0/0.9/1.4/1.9 on
\* the former and 0/0.7/1.2/1.5 on the latter for sizes 1/2/3/4, the hex offset
\* reduced by 0.1 for size 2 only, when val > 2.
C8_CorrectionAtSize2 ==
  BurstReturned =>
    evt.arg.ret[1] =
      BurstExpected(IF IsHexGrid
                    THEN HexOffset(evt.arg.size)
                         - (IF evt.arg.size = 2 /\ evt.arg.val > 2 THEN 1 ELSE 0)
                    ELSE SquareOffset(evt.arg.size))

\* C8's case: on a hex grid, size 2 and val 3 return (3 + 0.6 + 0.1) * sqrt(3)/2
C8_Witness ==
  /\ BurstReturned /\ IsHexGrid
  /\ evt.arg.size = 2 /\ evt.arg.val = 3
  /\ evt.arg.ret[1] = [tenths |-> 37, hexScale |-> TRUE]

\* C9: the template fromRange builds has distance (val + 0.1) * scale, scale 1 on
\* gridless and square grids and sqrt(3)/2 on every other grid type, and fromRange
\* and getBurstDistance agree on which grid types are hex.
C9_InitialDistance ==
  /\ (evt.kind = "fromRange" /\ evt.arg.ret # Null) =>
       evt.arg.ret[1].distance = [tenths |-> evt.arg.val * 10 + 1, hexScale |-> IsHexGrid]
  /\ fromRangeHex(gridType) = IsHexGrid
  /\ burstHex(gridType) = IsHexGrid

\* C9's case: on the first hex grid type, fromRange built a template of val 3
C9_Witness ==
  /\ evt.kind = "fromRange" /\ evt.arg.ret # Null
  /\ gridType = SQUARE + 1 /\ evt.arg.val = 3
  /\ evt.arg.ret[1].distance = [tenths |-> 31, hexScale |-> TRUE]

\* the increment of the last wheel event: 5, or with the modifier key 15 on gridless
\* and square grids and 30 on the others
Increment ==
  IF evt.arg.shiftKey THEN (IF gridType \in {GRIDLESS, SQUARE} THEN 15 ELSE 30) ELSE 5

Passing == {s \in Sessions : InSeq(stageMove, s) /\ ~throttled(now, sessions[s].moveTime)}
\* a step that delivers a move event: the event it records is a move event, and
\* neither the clock nor the canvas changed (the steps that keep the last record)
IsMove == evt'.kind = "mousemove" /\ now' = now /\ canvasReady' = canvasReady

\* C11: snapToCenter, snapToToken and getBurstDistance raise whenever they are called
\* with the canvas not ready, and change nothing; a move event delivered with the
\* canvas not ready raises as soon as a session's handler passes the throttle (a
\* dropped one returns at line 98), and whether it raises or is dropped no template's
\* position, distance or direction and no session's throttle timestamp changes.
C11_NotReadyRaises ==
  [][/\ (evt'.kind \in {"snapToCenter", "snapToToken", "getBurstDistance"} /\ ~evt'.ready)
          => evt'.arg.ret = Null
     /\ (evt'.kind \in {"snapToCenter", "snapToToken", "getBurstDistance"} /\ evt'.ready)
          => evt'.arg.ret # Null
     /\ ((\E t \in Templates, p \in Pixels :
             SnapToCenter(t, p[1], p[2]) \/ SnapToToken(t, p[1], p[2])) /\ ~canvasReady)
          => templates' = templates /\ sessions' = sessions
     /\ (IsMove /\ ~canvasReady)
          => /\ evt'.arg.threw = (Passing # {})
             /\ evt'.applied = {}
             /\ templates' = templates
             /\ sessions' = sessions]_vars

\* C11's case: a template that was moved and then snapped to a token, the canvas not
\* ready any more, got a move event that passed the throttle and raised
C11_Witness ==
  /\ evt.kind = "mousemove" /\ ~evt.ready /\ evt.arg.threw
  /\ \E s \in Sessions :
       /\ TemplateOf(s).isBurst
       /\ TemplateOf(s).x = 1
       /\ TemplateOf(s).distance # Zero
       /\ sessions[s].moveTime = ClockStart
       /\ now > ClockStart + THROTTLE

\* C12: the render model getData returns has the actor's name as its name when the
\* sheet record's name, as super.getData() gave it, is the empty string, and the
\* sheet record's name, unchanged, when that is not empty; the actor part of the
\* render model is returned as it was given.
C12_NameDefault ==
  evt.kind = "getData" =>
    /\ evt.arg.ret.actor = evt.arg.super.actor
    /\ evt.arg.super.data.name = "" => evt.arg.ret.data.name = evt.arg.super.actor.name
    /\ evt.arg.super.data.name # "" => evt.arg.ret.data.name = evt.arg.super.data.name

\* C12's case: the sheet of an actor named Turret with an empty sheet record name was
\* rendered with the name Turret
C12_Witness ==
  /\ evt.kind = "getData"
  /\ actor.name = "Turret" /\ actor.data.name = ""
  /\ evt.arg.ret.data.name = "Turret"

\* the payload of the last event's only update call
Payload == evt.calls[1].data[1]

\* C13: _updateObject makes exactly one call on the actor, update, whose payload holds
\* every field of the form with the value submitted and the token name set to the
\* submitted name; it returns that call's promise: resolved with the updated actor,
\* whose name and token name are the submitted name, or rejected with the call's
\* error, the actor as it was.
C13_SubmitForwardsPayload ==
  evt.kind = "_updateObject" =>
    /\ Len(evt.calls) = 1
    /\ evt.calls[1].op = "update"
    /\ Payload.token_name = Some(evt.arg.formData.name)
    /\ Payload.name = evt.arg.formData.name
    /\ Payload.img = evt.arg.formData.img
    /\ Payload.data_name = evt.arg.formData.data_name
    /\ evt.arg.ok => /\ evt.arg.ret = [state |-> "resolved", value |-> actor]
                     /\ actor.name = evt.arg.formData.name
                     /\ actor.token.name = evt.arg.formData.name
    /\ ~evt.arg.ok => /\ evt.arg.ret = [state |-> "rejected", value |-> "error"]
                      /\ actor = evt.arg.before

\* C13's case: a submission renamed the actor and its token from Drone to Turret
C13_Witness ==
  /\ evt.kind = "_updateObject" /\ evt.arg.ok
  /\ evt.arg.before.name = "Drone" /\ evt.arg.before.token.name = "Drone"
  /\ actor.name = "Turret" /\ actor.token.name = "Turret"

\* the visible tokens whose bounding box has the pixel (x, y) strictly inside it
VisibleTokensAt(x, y) ==
  {i \in DOMAIN tokens :
     /\ tokens[i].visible
     /\ tokens[i].x < x /\ x < tokens[i].x + tokens[i].width * GridSize
     /\ tokens[i].y < y /\ y < tokens[i].y + tokens[i].width * GridSize}

\* the center of token i's bounding box
CenterX(i) == tokens[i].x + (tokens[i].width * GridSize) \div 2
CenterY(i) == tokens[i].y + (tokens[i].width * GridSize) \div 2

\* C14: a template's burst flag is set exactly when its range type is Burst; an
\* applied move places a Burst template at the center of a visible token whose
\* bounding box contains the pointer, when there is one, and places a Cone, Line or
\* Blast template at the center of the pointer's grid cell whatever tokens are there.
C14_SnapModeFollowsBurst ==
  /\ \A t \in Templates : templates[t].isBurst = (templates[t].range.type = "Burst")
  /\ evt.kind = "mousemove" =>
       \A s \in evt.applied :
         /\ (TemplateOf(s).isBurst /\ VisibleTokensAt(evt.arg.x, evt.arg.y) # {}) =>
              \E i \in VisibleTokensAt(evt.arg.x, evt.arg.y) :
                TemplateOf(s).x = CenterX(i) /\ TemplateOf(s).y = CenterY(i)
         /\ ~TemplateOf(s).isBurst =>
              /\ TemplateOf(s).range.type \in {"Cone", "Line", "Blast"}
              /\ TemplateOf(s).x = CellCenter(evt.arg.x)
              /\ TemplateOf(s).y = CellCenter(evt.arg.y)

\* C14's case: a Blast template moved to a pixel inside a visible token whose center
\* is not the center of the pixel's cell, and was placed at the cell's center
C14_Witness ==
  /\ evt.kind = "mousemove"
  /\ \E s \in evt.applied :
       /\ TemplateOf(s).range.type = "Blast"
       /\ \E i \in VisibleTokensAt(evt.arg.x, evt.arg.y) :
            CenterX(i) # CellCenter(evt.arg.x)
       /\ TemplateOf(s).x = CellCenter(evt.arg.x)
       /\ TemplateOf(s).y = CellCenter(evt.arg.y)

\* C15: per session, the throttle timestamp is the time of the last move event the
\* session's handler applied (0 before the first): only an applied move event changes
\* it, to the time of that event; a move event the handler does not apply leaves the
\* timestamp, and the template's position, distance and direction, as they were; the
\* handler applies an event only more than 20 ms after the last one it applied, and
\* with the canvas ready applies every event more than 20 ms after the last one it
\* applied.
C15_ThrottleFromLastApplied ==
  [][/\ \A s \in Sessions :
          sessions'[s].moveTime # sessions[s].moveTime => IsMove /\ s \in evt'.applied
     /\ IsMove =>
          \A s \in Sessions :
            InSeq(stageMove, s) =>
              /\ s \in evt'.applied =>
                   /\ now - sessions[s].moveTime > 20
                   /\ sessions'[s].moveTime = now
              /\ s \notin evt'.applied => sessions'[s].moveTime = sessions[s].moveTime
              /\ (\A r \in Sessions : sessions[r].tmpl = sessions[s].tmpl => r \notin evt'.applied)
                   => templates'[sessions[s].tmpl] = templates[sessions[s].tmpl]
              /\ (now - sessions[s].moveTime > 20 /\ canvasReady) => s \in evt'.applied
     /\ (evt'.kind = "mousemove" /\ evt'.arg.prev # Null) =>
          \A s \in evt'.applied :
            s \in evt'.arg.prev[1].applied => evt'.arg.time - evt'.arg.prev[1].time > 20]_vars

\* C15's case: with the canvas ready a move event exactly 20 ms after the last applied
\* one was dropped, and the template stayed in the cell the applied one put it in,
\* not the pointer's
C15_Witness ==
  /\ evt.kind = "mousemove" /\ evt.ready /\ ~evt.arg.threw
  /\ \E s \in Sessions :
       /\ InSeq(stageMove, s)
       /\ s \notin evt.applied
       /\ sessions[s].moveTime = evt.arg.time - 20
       /\ TemplateOf(s).x # CellCenter(evt.arg.x)

\* the getBurstDistance value of the table for a footprint of `size` cells
BurstValue(val, size) ==
  [tenths |-> val * 10 + 1 + (IF IsHexGrid
                              THEN HexOffset(size) - (IF size = 2 /\ val > 2 THEN 1 ELSE 0)
                              ELSE SquareOffset(size)),
   hexScale |-> IsHexGrid]

\* the distance fromRange computes
ConstructionValue(val) == [tenths |-> val * 10 + 1, hexScale |-> IsHexGrid]

\* the distance of template t is one the claim allows: for a non-burst template the
\* construction value, for a Burst template 0 or the value of a footprint
DistanceAllowed(tm) ==
  IF tm.isBurst
  THEN tm.distance = Zero \/ \E size \in 1..MaxSize : tm.distance = BurstValue(tm.range.val, size)
  ELSE tm.distance = ConstructionValue(tm.range.val)

\* what an applied move leaves in the template of session s: for a Burst template
\* the value of the token snapped to, or 0 when no visible token contains the pointer
DistanceAfterMove(tm, x, y) ==
  IF ~tm.isBurst THEN tm.distance = ConstructionValue(tm.range.val)
  ELSE IF VisibleTokensAt(x, y) = {} THEN tm.distance = Zero
  ELSE \E i \in VisibleTokensAt(x, y) :
         /\ tm.x = CenterX(i) /\ tm.y = CenterY(i)
         /\ tm.distance = BurstValue(tm.range.val, tokens[i].width)

\* the distance part of the claim that holds at every step: every template's distance
\* is an allowed one, only an applied move of a Burst template changes a distance, and
\* an applied move leaves the value of the token snapped to, or 0
DistanceKept ==
  /\ \A t \in DOMAIN templates' : DistanceAllowed(templates'[t])
  /\ \A i \in DOMAIN created' : DistanceAllowed(created'[i].data)
  /\ \A t \in Templates :
       templates'[t].distance # templates[t].distance =>
         /\ IsMove /\ templates[t].isBurst
         /\ \E s \in evt'.applied : sessions[s].tmpl = t
  /\ IsMove => \A s \in evt'.applied :
       DistanceAfterMove(templates'[sessions[s].tmpl], evt'.arg.x, evt'.arg.y)

\* the left click that follows a move event to a pixel no visible token contains
ClickOverNoToken ==
  /\ MouseDown /\ canvasReady
  /\ evt.kind = "mousemove"
  /\ VisibleTokensAt(evt.arg.x, evt.arg.y) = {}

\* the Burst templates the click creates have distance 0
CreatesBurstAtZero ==
  \A i \in DOMAIN created' :
    (i > Len(created) /\ created'[i].data.isBurst) => created'[i].data.distance = Zero

\* C16 (as claimed): a non-burst template keeps its construction distance, a Burst
\* template's distance is 0 or the getBurstDistance value of the token last snapped
\* to, and a Burst template confirmed while the pointer, where the last move event
\* put it, is over no visible token is created with distance 0.
C16_ZeroWhenConfirmedOffToken ==
  [][DistanceKept /\ (ClickOverNoToken => CreatesBurstAtZero)]_vars

\* C16 (amended): a non-burst template keeps its construction distance, a Burst
\* template's distance is 0 or the getBurstDistance value of the token last snapped
\* to (the construction value, that of a one-cell footprint, until a move is
\* applied), and a Burst template confirmed after a move event that was applied, to
\* a pixel no visible token contains, is created with distance 0.
C16_ZeroAfterAppliedMoveOffToken ==
  [][DistanceKept
     /\ (ClickOverNoToken /\ (\A i \in DOMAIN stageDown : stageDown[i] \in evt.applied))
          => CreatesBurstAtZero]_vars

\* C16's case: a Burst template that an applied move put at the center of a cell no
\* visible token contains was confirmed, and created with distance 0
C16_Witness ==
  /\ evt.kind = "mousedown" /\ evt.ready
  /\ \E i \in DOMAIN created :
       /\ created[i].data.isBurst
       /\ created[i].data.distance = Zero
       /\ VisibleTokensAt(created[i].data.x, created[i].data.y) = {}
       /\ sessions[created[i].s].moveTime >= ClockStart

\* the squared distance from the pixel (x, y) to the center of token i
Away(i, x, y) ==
  (x - CenterX(i)) * (x - CenterX(i)) + (y - CenterY(i)) * (y - CenterY(i))

\* the visible tokens containing (x, y) that are closest to it, and the first of them
Closest(x, y) ==
  {i \in VisibleTokensAt(x, y) : \A j \in VisibleTokensAt(x, y) : Away(i, x, y) <= Away(j, x, y)}
FirstClosest(x, y) == CHOOSE i \in Closest(x, y) : \A j \in Closest(x, y) : i <= j

\* C17: when a move of a Burst template is applied and visible tokens strictly contain
\* the pointer, the template is placed at the center of the one of them closest to
\* the pointer, the first in placeable order among equally close ones, and its
\* distance is the getBurstDistance value of that token's width; a hidden token is
\* never the one, whether or not it contains the pointer or is closer.
C17_ClosestVisibleToken ==
  evt.kind = "mousemove" =>
    \A s \in evt.applied :
      (TemplateOf(s).isBurst /\ VisibleTokensAt(evt.arg.x, evt.arg.y) # {}) =>
        LET i == FirstClosest(evt.arg.x, evt.arg.y) IN
        /\ tokens[i].visible
        /\ TemplateOf(s).x = CenterX(i)
        /\ TemplateOf(s).y = CenterY(i)
        /\ TemplateOf(s).distance = BurstValue(TemplateOf(s).range.val, tokens[i].width)

\* C17's case: the pointer is inside two visible tokens of different widths, equally
\* close, and the template got the distance of the first one's width
C17_Witness ==
  /\ evt.kind = "mousemove"
  /\ \E s \in evt.applied :
       /\ TemplateOf(s).isBurst
       /\ \E i, j \in Closest(evt.arg.x, evt.arg.y) :
            /\ i < j
            /\ tokens[i].width # tokens[j].width
            /\ TemplateOf(s).distance = BurstValue(TemplateOf(s).range.val, tokens[i].width)

\* a step that delivers a wheel event
IsWheel == evt'.kind = "wheel" /\ now' = now /\ canvasReady' = canvasReady

\* the listeners, the active layer, the preview and the scene are as they were
HostUntouched ==
  /\ stageMove' = stageMove /\ stageDown' = stageDown
  /\ viewContext' = viewContext /\ viewWheel' = viewWheel
  /\ activeLayer' = activeLayer /\ preview' = preview /\ created' = created

\* C18: a wheel event changes nothing but the direction of the template of the session
\* whose handler runs, and with the canvas ready it changes that by snap * sign(deltaY)
\* however short the time since the last move or wheel event; a move event changes
\* no template's direction; neither changes the listeners, the active layer, the
\* preview or the objects created, and a wheel event changes no throttle timestamp.
C18_HandlerFrames ==
  [][/\ IsWheel =>
          /\ HostUntouched
          /\ sessions' = sessions
          /\ \A t \in Templates :
               templates'[t] = [templates[t] EXCEPT !.direction = templates'[t].direction]
          /\ \A t \in Templates :
               templates'[t].direction # templates[t].direction => t = sessions[evt'.arg.s].tmpl
          /\ canvasReady =>
               templates'[sessions[evt'.arg.s].tmpl].direction
                 = evt'.arg.from + wheelSnap(gridType, evt'.arg.shiftKey) * evt'.arg.deltaY
     /\ IsMove =>
          /\ HostUntouched
          /\ \A t \in Templates : templates'[t].direction = templates[t].direction
          /\ \A s \in Sessions :
               sessions'[s] = [sessions[s] EXCEPT !.moveTime = sessions'[s].moveTime]]_vars

\* C18's case: a wheel event turned a Burst template, already turned and snapped to a
\* token, in the millisecond of the move event just applied
C18_Witness ==
  /\ evt.kind = "wheel" /\ evt.ready
  /\ evt.arg.from # 0
  /\ TemplateOf(evt.arg.s).direction # evt.arg.from
  /\ TemplateOf(evt.arg.s).isBurst
  /\ TemplateOf(evt.arg.s).distance # Zero
  /\ sessions[evt.arg.s].moveTime = now

\* a step that calls fromRange, and one that calls drawPreview
IsFromRange == evt'.kind = "fromRange" /\ now' = now /\ canvasReady' = canvasReady
IsDrawPreview == evt'.kind = "drawPreview" /\ now' = now /\ canvasReady' = canvasReady

\* C19: with the canvas not ready fromRange returns null for every range type and
\* builds no template; drawPreview with the canvas not ready, or with no active layer,
\* makes no host call: the active layer, the preview and the listeners are as they
\* were and no session is added, so none exists afterwards if none did before.
C19_NotReadyNoOp ==
  [][/\ (IsFromRange /\ ~canvasReady) =>
          /\ evt'.arg.ret = Null
          /\ templates' = templates
          /\ HostUntouched /\ sessions' = sessions
     /\ (IsDrawPreview /\ (~canvasReady \/ activeLayer = NoLayer)) =>
          /\ evt'.calls = <<>>
          /\ HostUntouched
          /\ sessions' = sessions
          /\ templates' = templates
          /\ sessions = <<>> =>
               /\ sessions' = <<>>
               /\ stageMove' = <<>> /\ stageDown' = <<>>
               /\ viewContext' = Null /\ viewWheel' = Null]_vars

\* C19's case: drawPreview was called on a template built earlier, the canvas not
\* ready any more, and there is no session, no listener and no preview child
C19_Witness ==
  /\ evt.kind = "drawPreview" /\ ~evt.ready
  /\ templates # <<>>
  /\ sessions = <<>>
  /\ stageMove = <<>> /\ stageDown = <<>> /\ viewContext = Null /\ viewWheel = Null
  /\ preview = {}
  /\ activeLayer = "tokens"

====
